---- MODULE Spec2Model ----
(***************************************************************************)
(* Model of app2.py: the Streamlit page that fetches keyword ideas, ranks  *)
(* them, fetches organic search results and asks a completion endpoint for *)
(* ad copies.  One button click is one run of the body of main().          *)
(***************************************************************************)
EXTENDS Integers, Sequences, FiniteSets, TLC

VARIABLES
    pc,                \* position of the script inside main()
    inputs,            \* widget values of the current run (lines 108-119)
    df,                \* main: df (line 137)
    top_keywords_df,   \* main: top_keywords_df (line 138)
    top_keywords,      \* main: top_keywords (line 142)
    serp_df,           \* main: serp_df (line 144); result of scrape_google_search_results
    generated_ads,     \* main: generated_ads (line 148)
    screen,            \* what streamlit has rendered in the results column, in order
    kw_calls,          \* requests sent to KeywordPlanIdeaService in this run
    serp_calls,        \* requests sent to the search-results API in this run
    gen_calls,         \* prompts sent to the completion API in this run
    provider,          \* what the external services answered in this run
    trace              \* steps of the current run, in the order they completed

vars == << pc, inputs, df, top_keywords_df, top_keywords, serp_df,
           generated_ads, screen, kw_calls, serp_calls, gen_calls, provider, trace >>

----------------------------------------------------------------------------
(* Bounds of the model *)

MaxIdeas == 3      \* longest keyword response with arbitrary volumes
MaxVol == 1        \* largest avg_monthly_searches in such a response
MaxExtra == 2      \* long responses have TopN+1 .. TopN+MaxExtra entries
MaxOrganic == 2    \* longest organic_results list with arbitrary fields
MaxLimit == 3      \* largest num_results tried on scrape_google_search_results alone

(* Program constants *)

TopN == 10         \* .head(10)
NumResults == 10   \* num_results=10
CustomerId == "7186856567"

Min(a, b) == IF a <= b THEN a ELSE b

----------------------------------------------------------------------------
(* pandas.DataFrame(list of dicts): the columns are the keys of the dicts, *)
(* so a frame built from an empty list has no column at all.               *)

DataFrame(records) ==
    [ columns |-> IF records = << >> THEN {} ELSE DOMAIN records[1],
      rows    |-> records ]

EmptyFrame == DataFrame(<< >>)

(* client.enums.KeywordPlanCompetitionLevelEnum...Name(value) *)
CompetitionName(c) ==
    CASE c = 0 -> "UNSPECIFIED"
      [] c = 1 -> "UNKNOWN"
      [] c = 2 -> "LOW"
      [] c = 3 -> "MEDIUM"
      [] OTHER -> "HIGH"

(* The dict appended for one idea of the response (lines 32-36). *)
IdeaRow(idea) ==
    [ Keyword     |-> idea.text,
      Avg         |-> idea.avg_monthly_searches,
      Competition |-> CompetitionName(idea.competition) ]

RECURSIVE IdeaRows(_, _)
IdeaRows(ideas, n) ==
    IF n = 0 THEN << >> ELSE Append(IdeaRows(ideas, n - 1), IdeaRow(ideas[n]))

(* get_keyword_ideas_with_themes, lines 25-39.  answer.fail says where the *)
(* provider raises: "none", "request" (generate_keyword_ideas raises       *)
(* GoogleAdsException), "results" (GoogleAdsException while the results    *)
(* are consumed, after answer.consumed ideas were appended), "other" (an   *)
(* exception that is not a GoogleAdsException).  The except clause does    *)
(* not clear all_results.                                                  *)
AllResults(answer) ==
    CASE answer.fail = "none"    -> IdeaRows(answer.ideas, Len(answer.ideas))
      [] answer.fail = "request" -> << >>
      [] answer.fail = "results" -> IdeaRows(answer.ideas, answer.consumed)
      [] OTHER                   -> << >>

KeywordFetchRaises(answer) == answer.fail = "other"

KeywordFetchReports(answer) == answer.fail \in {"request", "results"}

KeywordFetchResult(answer) == DataFrame(AllResults(answer))

----------------------------------------------------------------------------
(* df.sort_values(by="Avg Monthly Searches", ascending=False).head(10)     *)

SortRaises(frame, by) == by \notin frame.columns

MaxAvg(rows, S) == CHOOSE m \in {rows[i].Avg : i \in S} :
                       \A i \in S : rows[i].Avg <= m

(* sort_values is called with the default kind="quicksort", which pandas   *)
(* documents as not stable: rows of equal volume may come out in any order.*)
RECURSIVE DescOrders(_, _)
DescOrders(rows, S) ==
    IF S = {} THEN { << >> }
    ELSE LET m == MaxAvg(rows, S)
             first == { i \in S : rows[i].Avg = m }
         IN  UNION { { << rows[i] >> \o t : t \in DescOrders(rows, S \ {i}) }
                     : i \in first }

SortValuesDesc(frame) ==
    { [ columns |-> frame.columns, rows |-> r ]
        : r \in DescOrders(frame.rows, DOMAIN frame.rows) }

HeadN(frame, n) ==
    [ columns |-> frame.columns,
      rows    |-> SubSeq(frame.rows, 1, Min(n, Len(frame.rows))) ]

TopKeywordFrames(frame) == { HeadN(s, TopN) : s \in SortValuesDesc(frame) }

(* top_keywords_df["Keyword"].tolist() *)
KeywordList(frame) == [ i \in DOMAIN frame.rows |-> frame.rows[i].Keyword ]

----------------------------------------------------------------------------
(* scrape_google_search_results, lines 50-52 *)

(* dict.get(key, default) *)
Get(d, key, default) == IF key \in DOMAIN d THEN d[key] ELSE default

(* Mutant: the slice is forgotten. *)
SliceAll(s, n) == s

(* seq[:n] *)
SliceTo(s, n) ==
    IF n >= 0 THEN SubSeq(s, 1, Min(n, Len(s)))
    ELSE SubSeq(s, 1, IF Len(s) + n > 0 THEN Len(s) + n ELSE 0)

(* Mutant: r.get("title") and r.get("snippet"), which yield None for a    *)
(* missing key.                                                            *)
SearchEntryNoDefault(r) ==
    [ Title       |-> Get(r, "title", "null"),
      Description |-> Get(r, "snippet", "null") ]

SearchEntry(r) ==
    [ Title       |-> Get(r, "title", "N/A"),
      Description |-> Get(r, "snippet", "N/A") ]

OrganicResults(results) == Get(results, "organic_results", << >>)

SearchResultList(results, num_results) ==
    LET kept == SliceTo(OrganicResults(results), num_results)
    IN  [ i \in DOMAIN kept |-> SearchEntry(kept[i]) ]

Scrape(results, num_results) ==
    DataFrame(SearchResultList(results, num_results))

(* serp_df.to_dict(): {column: {index: value}} *)
ToDict(frame) ==
    [ c \in frame.columns |-> [ i \in DOMAIN frame.rows |-> frame.rows[i][c] ] ]

----------------------------------------------------------------------------
(* generate_ads, lines 54-61 *)

(* sep.join(list), kept as the list of its pieces *)
RECURSIVE Join(_, _)
Join(sep, list) ==
    IF Len(list) <= 1 THEN list
    ELSE << list[1], sep >> \o Join(sep, Tail(list))

Prompt(keywords, brand, serp_df_list, no_of_headlines, no_of_descriptions, hl, gl) ==
    [ headlines    |-> no_of_headlines,
      descriptions |-> no_of_descriptions,
      hl           |-> hl,
      gl           |-> gl,
      serp         |-> serp_df_list,
      guideline1   |-> Join(", ", keywords),
      guideline2   |-> brand,
      guardrail    |-> "Headlines: max 30 chars, Descriptions: max 90 chars." ]

(* bool(response): None is falsy, a message object is truthy whatever its  *)
(* content.                                                                *)
Truthy(response) == ~response.is_none

(* return response.content if response else "Error generating ads." *)
AdsText(response) ==
    IF Truthy(response) THEN response.content ELSE "Error generating ads."

----------------------------------------------------------------------------
(* main: the selection tables, lines 81-104 *)

LanguageTable ==
    [ Dutch     |-> [ hl |-> "nl", language_code |-> 1010 ],
      French    |-> [ hl |-> "fr", language_code |-> 1002 ],
      Italian   |-> [ hl |-> "it", language_code |-> 1004 ],
      Spanish   |-> [ hl |-> "es", language_code |-> 1003 ],
      German    |-> [ hl |-> "de", language_code |-> 1001 ],
      Danish    |-> [ hl |-> "da", language_code |-> 1009 ],
      Norwegian |-> [ hl |-> "no", language_code |-> 1013 ],
      Swedish   |-> [ hl |-> "sv", language_code |-> 1015 ],
      English   |-> [ hl |-> "en", language_code |-> 1000 ] ]

CountryTable ==
    [ Belgium     |-> [ gl |-> "BE", location_code |-> 2056 ],
      Netherlands |-> [ gl |-> "NL", location_code |-> 2528 ],
      France      |-> [ gl |-> "FR", location_code |-> 2250 ],
      Italy       |-> [ gl |-> "IT", location_code |-> 2380 ],
      Spain       |-> [ gl |-> "ES", location_code |-> 2724 ],
      Germany     |-> [ gl |-> "DE", location_code |-> 2276 ],
      Denmark     |-> [ gl |-> "DK", location_code |-> 2208 ],
      Norway      |-> [ gl |-> "NO", location_code |-> 2578 ],
      Sweden      |-> [ gl |-> "SE", location_code |-> 2752 ],
      India       |-> [ gl |-> "IN", location_code |-> 2356 ] ]

(* Widget values tried: the defaults, and one other selection. *)
InputChoices ==
    { [ base_keywords |-> << "vakantiehuis" >>, language |-> "Dutch",
        country |-> "Belgium", brand |-> "Belvilla",
        no_of_headlines |-> 20, no_of_descriptions |-> 8 ],
      [ base_keywords |-> << "holiday home", "villa" >>, language |-> "English",
        country |-> "Netherlands", brand |-> "OYO",
        no_of_headlines |-> 5, no_of_descriptions |-> 2 ] }

Hl(in) == LanguageTable[in.language].hl
Gl(in) == CountryTable[in.country].gl

(* The request built in lines 17-23. *)
KeywordRequest(in) ==
    [ customer_id          |-> CustomerId,
      language             |-> LanguageTable[in.language].language_code,
      geo_target_constants |-> << CountryTable[in.country].location_code >>,
      include_adult        |-> FALSE,
      network              |-> "GOOGLE_SEARCH",
      keywords             |-> in.base_keywords ]

(* The request built in lines 43-49. *)
SearchRequest(in) ==
    [ q   |-> Join(",", in.base_keywords),
      num |-> NumResults,
      hl  |-> Hl(in),
      gl  |-> Gl(in) ]

----------------------------------------------------------------------------
(* What the three external services may answer. *)

Idea(i, v) == [ text |-> "k" \o ToString(i), avg_monthly_searches |-> v,
                competition |-> 2 + (v % 3) ]

ShortIdeas ==
    UNION { { [ i \in 1..n |-> Idea(i, vol[i]) ] : vol \in [ 1..n -> 0..MaxVol ] }
            : n \in 0..MaxIdeas }

(* Responses longer than TopN: volumes cycle through 0..m-1 from offset k, *)
(* all distinct when m = n and with ties when m = TopN \div 2.             *)
LongIdeas ==
    { [ i \in 1..n |-> Idea(i, (i + k) % m) ]
        : << n, k, m >> \in { t \in ((TopN + 1)..(TopN + MaxExtra)) \X {0, 4}
                                      \X ((TopN \div 2)..(TopN + MaxExtra))
                                : t[3] \in {t[1], TopN \div 2} } }

KeywordAnswers ==
    { [ ideas |-> s, fail |-> "none", consumed |-> Len(s) ]
        : s \in ShortIdeas \cup LongIdeas }
    \cup { [ ideas |-> << >>, fail |-> f, consumed |-> 0 ] : f \in {"request", "other"} }
    \cup UNION { { [ ideas |-> s, fail |-> "results", consumed |-> c ] : c \in 0..Len(s) }
                 : s \in ShortIdeas }

(* One organic result: a dict that may lack "title" or "snippet", or hold  *)
(* a JSON null there.                                                      *)
OrganicResult ==
    UNION { { [ k \in keys |-> IF k = "title" THEN t ELSE d ]
                : << t, d >> \in {"t1", "null"} \X {"s1", "null"} }
            : keys \in SUBSET {"title", "snippet"} }

ScrapeResponses ==
    { [ search_metadata |-> "Success" ] }
    \cup { [ search_metadata |-> "Success", organic_results |-> o ]
             : o \in UNION { [ 1..n -> OrganicResult ] : n \in 0..MaxOrganic } }

FullResult(i) == [ title |-> IF i % 2 = 1 THEN "t1" ELSE "t2", snippet |-> "s1" ]

(* The responses tried inside a whole run. *)
RunResponses ==
    { [ search_metadata |-> "Success" ],
      [ search_metadata |-> "Success", organic_results |-> << >> ],
      [ search_metadata |-> "Success",
        organic_results |-> << [ title |-> "t1" ], [ snippet |-> "s1" ] >> ] }
    \cup { [ search_metadata |-> "Success",
             organic_results |-> [ i \in 1..n |-> FullResult(i) ] ]
             : n \in (NumResults + 1)..(NumResults + MaxExtra) }

SearchAnswers ==
    { [ raises |-> FALSE, results |-> r, num |-> NumResults ] : r \in RunResponses }
    \cup { [ raises |-> TRUE, results |-> [ search_metadata |-> "Error" ],
             num |-> NumResults ] }

CompletionAnswers ==
    { [ raises |-> TRUE,  is_none |-> TRUE,  content |-> "" ],
      [ raises |-> FALSE, is_none |-> TRUE,  content |-> "" ],
      [ raises |-> FALSE, is_none |-> FALSE, content |-> "" ],
      [ raises |-> FALSE, is_none |-> FALSE, content |-> "Headline 1 ..." ] }

----------------------------------------------------------------------------
(* main, lines 122-152 *)

DefaultInputs ==
    [ base_keywords |-> << "vakantiehuis" >>, language |-> "Dutch",
      country |-> "Belgium", brand |-> "Belvilla",
      no_of_headlines |-> 20, no_of_descriptions |-> 8 ]

NoAnswers == [ s \in {} |-> s ]

Answered(s) == s \in DOMAIN provider

Record(s, answer) == [ t \in DOMAIN provider \cup {s} |->
                         IF t = s THEN answer ELSE provider[t] ]

(* Mutant: the snippets are fetched before the ideas are ranked. *)
FollowsSnippetsFirst(step) ==
    CASE step = "load"      -> "fetch"
      [] step = "fetch"     -> "serp"
      [] step = "serp"      -> "rank"
      [] step = "rank"      -> "show_kw"
      [] step = "show_kw"   -> "show_serp"
      [] step = "show_serp" -> "gen"
      [] step = "gen"       -> "show_ads"
      [] OTHER              -> "done"

(* The statements of the try block, in the order they are written. *)
Follows(step) ==
    CASE step = "load"      -> "fetch"
      [] step = "fetch"     -> "rank"
      [] step = "rank"      -> "show_kw"
      [] step = "show_kw"   -> "serp"
      [] step = "serp"      -> "show_serp"
      [] step = "show_serp" -> "gen"
      [] step = "gen"       -> "show_ads"
      [] OTHER              -> "done"

(* Mutant: the failed step is tried again. *)
RetryAfterFailure(step) == step

(* An exception that reaches the except clause of line 151 ends the run. *)
AfterFailure(step) == "failed"

Widget(w, v) == [ widget |-> w, value |-> v ]

(* Mutant: the handler empties the results column before it reports. *)
HandledAfterClear(scr, e) ==
    << [ widget |-> "error", value |-> "An error occurred", ex |-> e ] >>

(* except Exception as e: st.error(f"An error occurred: {e}") *)
Handled(scr, e) == Append(scr, [ widget |-> "error", value |-> "An error occurred", ex |-> e ])

(* st.error(f"Error with request: {ex}") of get_keyword_ideas_with_themes *)
Reported(scr, ex) == Append(scr, [ widget |-> "error", value |-> "Error with request", ex |-> ex ])

Init ==
    /\ pc = "idle"
    /\ inputs = DefaultInputs
    /\ df = EmptyFrame
    /\ top_keywords_df = EmptyFrame
    /\ top_keywords = << >>
    /\ serp_df = EmptyFrame
    /\ generated_ads = ""
    /\ screen = << >>
    /\ kw_calls = << >>
    /\ serp_calls = << >>
    /\ gen_calls = << >>
    /\ provider = NoAnswers
    /\ trace = << >>

(* The button is pressed: streamlit runs the script again from the top,    *)
(* with an empty page and no local variable of the previous run.           *)
Click ==
    /\ pc \in {"idle", "done", "failed"}
    /\ \E in \in InputChoices : inputs' = in
    /\ pc' = "load"
    /\ df' = EmptyFrame
    /\ top_keywords_df' = EmptyFrame
    /\ top_keywords' = << >>
    /\ serp_df' = EmptyFrame
    /\ generated_ads' = ""
    /\ screen' = << >>
    /\ kw_calls' = << >>
    /\ serp_calls' = << >>
    /\ gen_calls' = << >>
    /\ provider' = NoAnswers
    /\ trace' = << >>

(* Lines 126-136: the header, the credentials, GoogleAdsClient.load_from_dict. *)
LoadClient ==
    /\ pc = "load"
    /\ \E raises \in BOOLEAN :
         /\ provider' = Record("load", [ raises |-> raises ])
         /\ IF raises
            THEN /\ pc' = AfterFailure("load")
                 /\ screen' = Handled(Append(screen, Widget("header", "Results")), "load")
                 /\ trace' = trace
            ELSE /\ pc' = Follows("load")
                 /\ screen' = Append(screen, Widget("header", "Results"))
                 /\ trace' = Append(trace, "load")
    /\ UNCHANGED << inputs, df, top_keywords_df, top_keywords, serp_df,
                    generated_ads, kw_calls, serp_calls, gen_calls >>

(* Line 137: get_keyword_ideas_with_themes. *)
KeywordFetch ==
    /\ pc = "fetch"
    /\ \E answer \in KeywordAnswers :
         /\ provider' = Record("fetch", answer)
         /\ kw_calls' = Append(kw_calls, KeywordRequest(inputs))
         /\ IF KeywordFetchRaises(answer)
            THEN /\ pc' = AfterFailure("fetch")
                 /\ screen' = Handled(screen, "fetch")
                 /\ df' = df
                 /\ trace' = trace
            ELSE /\ pc' = Follows("fetch")
                 /\ screen' = IF KeywordFetchReports(answer)
                              THEN Reported(screen, "GoogleAdsException")
                              ELSE screen
                 /\ df' = KeywordFetchResult(answer)
                 /\ trace' = Append(trace, "fetch")
    /\ UNCHANGED << inputs, top_keywords_df, top_keywords, serp_df,
                    generated_ads, serp_calls, gen_calls >>

(* Line 138: sort_values(...).head(10); KeyError when df has no such column. *)
Rank ==
    /\ pc = "rank"
    /\ IF SortRaises(df, "Avg")
       THEN /\ pc' = AfterFailure("rank")
            /\ screen' = Handled(screen, "rank")
            /\ UNCHANGED << top_keywords_df, trace >>
       ELSE /\ pc' = Follows("rank")
            /\ top_keywords_df' \in TopKeywordFrames(df)
            /\ trace' = Append(trace, "rank")
            /\ screen' = screen
    /\ UNCHANGED << inputs, df, top_keywords, serp_df, generated_ads,
                    kw_calls, serp_calls, gen_calls, provider >>

(* Lines 139-142: the ranked table is shown and its keywords are taken. *)
ShowKeywords ==
    /\ pc = "show_kw"
    /\ pc' = Follows("show_kw")
    /\ screen' = Append(Append(screen, Widget("subheader", "Top Keywords")),
                        Widget("keywords", top_keywords_df))
    /\ top_keywords' = KeywordList(top_keywords_df)
    /\ trace' = Append(trace, "show_kw")
    /\ UNCHANGED << inputs, df, top_keywords_df, serp_df, generated_ads,
                    kw_calls, serp_calls, gen_calls, provider >>

(* Line 144: scrape_google_search_results(",".join(base_keywords), hl, gl). *)
SnippetFetch ==
    /\ pc = "serp"
    /\ \E answer \in SearchAnswers :
         /\ provider' = Record("serp", answer)
         /\ serp_calls' = Append(serp_calls, SearchRequest(inputs))
         /\ IF answer.raises
            THEN /\ pc' = AfterFailure("serp")
                 /\ screen' = Handled(screen, "serp")
                 /\ UNCHANGED << serp_df, trace >>
            ELSE /\ pc' = Follows("serp")
                 /\ serp_df' = Scrape(answer.results, answer.num)
                 /\ trace' = Append(trace, "serp")
                 /\ screen' = screen
    /\ UNCHANGED << inputs, df, top_keywords_df, top_keywords, generated_ads,
                    kw_calls, gen_calls >>

(* Lines 145-146. *)
ShowSnippets ==
    /\ pc = "show_serp"
    /\ pc' = Follows("show_serp")
    /\ screen' = Append(Append(screen, Widget("subheader", "Google Search Results")),
                        Widget("snippets", serp_df))
    /\ trace' = Append(trace, "show_serp")
    /\ UNCHANGED << inputs, df, top_keywords_df, top_keywords, serp_df,
                    generated_ads, kw_calls, serp_calls, gen_calls, provider >>

(* Mutant: the keywords are taken from df instead of top_keywords_df. *)
GenerateArgsFromDf ==
    [ top_keywords |-> KeywordList(df),
      serp_df_list |-> ToDict(serp_df),
      prompt       |-> Prompt(KeywordList(df), inputs.brand, ToDict(serp_df),
                              inputs.no_of_headlines, inputs.no_of_descriptions,
                              Hl(inputs), Gl(inputs)) ]

(* The arguments main passes to generate_ads in line 148. *)
GenerateArgs ==
    [ top_keywords |-> top_keywords,
      serp_df_list |-> ToDict(serp_df),
      prompt       |-> Prompt(top_keywords, inputs.brand, ToDict(serp_df),
                              inputs.no_of_headlines, inputs.no_of_descriptions,
                              Hl(inputs), Gl(inputs)) ]

(* Line 148: generate_ads. *)
Generate ==
    /\ pc = "gen"
    /\ \E answer \in CompletionAnswers :
         /\ provider' = Record("gen", answer)
         /\ gen_calls' = Append(gen_calls, GenerateArgs)
         /\ IF answer.raises
            THEN /\ pc' = AfterFailure("gen")
                 /\ screen' = Handled(screen, "gen")
                 /\ UNCHANGED << generated_ads, trace >>
            ELSE /\ pc' = Follows("gen")
                 /\ generated_ads' = AdsText(answer)
                 /\ trace' = Append(trace, "gen")
                 /\ screen' = screen
    /\ UNCHANGED << inputs, df, top_keywords_df, top_keywords, serp_df,
                    kw_calls, serp_calls >>

(* Lines 149-150. *)
ShowAds ==
    /\ pc = "show_ads"
    /\ pc' = Follows("show_ads")
    /\ screen' = Append(Append(screen, Widget("subheader", "Generated Ads")),
                        Widget("ads", generated_ads))
    /\ trace' = Append(trace, "show_ads")
    /\ UNCHANGED << inputs, df, top_keywords_df, top_keywords, serp_df,
                    generated_ads, kw_calls, serp_calls, gen_calls, provider >>

Next ==
    \/ Click
    \/ LoadClient
    \/ KeywordFetch
    \/ Rank
    \/ ShowKeywords
    \/ SnippetFetch
    \/ ShowSnippets
    \/ Generate
    \/ ShowAds

Spec == Init /\ [][Next]_vars

----------------------------------------------------------------------------
(* scrape_google_search_results on its own, for any response and any       *)
(* num_results of 0..MaxLimit.                                             *)

InitScrape ==
    /\ pc = "scrape"
    /\ inputs = DefaultInputs
    /\ df = EmptyFrame
    /\ top_keywords_df = EmptyFrame
    /\ top_keywords = << >>
    /\ serp_df = EmptyFrame
    /\ generated_ads = ""
    /\ screen = << >>
    /\ kw_calls = << >>
    /\ serp_calls = << >>
    /\ gen_calls = << >>
    /\ provider = NoAnswers
    /\ trace = << >>

ScrapeCall ==
    /\ pc = "scrape"
    /\ \E r \in ScrapeResponses, n \in 0..MaxLimit :
         /\ provider' = Record("serp", [ raises |-> FALSE, results |-> r, num |-> n ])
         /\ serp_df' = Scrape(r, n)
    /\ serp_calls' = Append(serp_calls, SearchRequest(inputs))
    /\ pc' = "scraped"
    /\ trace' = Append(trace, "serp")
    /\ UNCHANGED << inputs, df, top_keywords_df, top_keywords, generated_ads,
                    screen, kw_calls, gen_calls >>

NextScrape == ScrapeCall

SpecScrape == InitScrape /\ [][NextScrape]_vars

----------------------------------------------------------------------------
(* Properties *)

StepOrder == << "load", "fetch", "rank", "show_kw", "serp", "show_serp",
                "gen", "show_ads" >>

IsPrefix(s, t) == Len(s) <= Len(t) /\ s = SubSeq(t, 1, Len(s))

Done(step) == \E i \in DOMAIN trace : trace[i] = step

GenericErrors(scr) ==
    { i \in DOMAIN scr : scr[i].widget = "error" /\ scr[i].value = "An error occurred" }

ProviderErrors(scr) ==
    { i \in DOMAIN scr : scr[i].widget = "error" /\ scr[i].value = "Error with request" }

Shown(w) == { i \in DOMAIN screen : screen[i].widget = w }

FailedAt(step) ==
    /\ pc = "failed"
    /\ Len(screen) \in GenericErrors(screen)
    /\ screen[Len(screen)].ex = step

(* The stable descending sort: among the rows of greatest volume, the one  *)
(* that came first in the response.                                        *)
RECURSIVE StableDesc(_, _)
StableDesc(rows, S) ==
    IF S = {} THEN << >>
    ELSE LET m == MaxAvg(rows, S)
             i == CHOOSE j \in S : /\ rows[j].Avg = m
                                   /\ \A k \in S : rows[k].Avg = m => j <= k
         IN  << rows[i] >> \o StableDesc(rows, S \ {i})

StableTop(rows) ==
    LET sorted == StableDesc(rows, DOMAIN rows)
    IN  SubSeq(sorted, 1, Min(TopN, Len(sorted)))

(* C1: for every sequence of keyword ideas the client returns, of any      *)
(* length and with ties, the ranking step yields the first min(10, n) rows *)
(* of the stable descending sort by volume, and does not raise.            *)
C1_RankedIsStableTop ==
    (Done("fetch") /\ (Done("rank") \/ FailedAt("rank")))
        => (Done("rank") /\ top_keywords_df.rows = StableTop(df.rows))

(* C2: when the keyword fetch yields zero ideas, the ranking step does not *)
(* raise, the run goes on to the snippet fetch and the generation call,    *)
(* and the generation call receives an empty keyword list.                 *)
C2_EmptyKeywordsProceed ==
    (Done("fetch") /\ df.rows = << >>)
        => /\ ~FailedAt("rank")
           /\ pc \in {"done", "failed"} => serp_calls # << >>
           /\ gen_calls # << >> => gen_calls[1].top_keywords = << >>

(* C3: whenever the completion call yields no content, a null response or  *)
(* a response whose content is empty, generate_ads returns the fallback    *)
(* string "Error generating ads.".                                         *)
C3_FallbackOnNoContent ==
    (Done("gen") /\ (provider["gen"].is_none \/ provider["gen"].content = ""))
        => generated_ads = "Error generating ads."

(* C4: whenever the provider raises its exception in                       *)
(* get_keyword_ideas_with_themes, from the request or while the results    *)
(* are consumed, the error is reported, nothing propagates and the result  *)
(* set is empty.                                                           *)
C4_ProviderFailureYieldsEmpty ==
    (Answered("fetch") /\ provider["fetch"].fail \in {"request", "results"})
        => /\ Done("fetch")
           /\ ProviderErrors(screen) # {}
           /\ ~FailedAt("fetch")
           /\ df.rows = << >>

(* C5: the steps of a run happen in the order keyword fetch, ranking,      *)
(* snippet fetch, generation: no snippet request before ranking is done,   *)
(* no completion call before the snippet fetch returned, and each result   *)
(* is displayed only after its own step.                                   *)
C5_StrictOrder ==
    /\ IsPrefix(trace, StepOrder)
    /\ kw_calls # << >> => Done("load")
    /\ serp_calls # << >> => (Done("fetch") /\ Done("rank"))
    /\ gen_calls # << >> => Done("serp")
    /\ Shown("keywords") # {} => Done("rank")
    /\ Shown("snippets") # {} => Done("serp")
    /\ Shown("ads") # {} => Done("gen")

C5_Witness ==
    /\ pc = "done"
    /\ trace = StepOrder
    /\ Len(kw_calls) = 1 /\ Len(serp_calls) = 1 /\ Len(gen_calls) = 1

StepsAfter(step) ==
    { StepOrder[j] : j \in { k \in DOMAIN StepOrder :
                               \E i \in DOMAIN StepOrder : StepOrder[i] = step /\ i <= k } }

(* C6: when a step fails with an uncaught exception no later step runs,    *)
(* exactly one generic error message is shown, and what was displayed      *)
(* before the failure stays displayed.                                     *)
C6_FailureAborts ==
    pc = "failed" =>
        /\ Cardinality(GenericErrors(screen)) = 1
        /\ \E s \in {"load", "fetch", "rank", "serp", "gen"} :
             /\ FailedAt(s)
             /\ \A t \in StepsAfter(s) : ~Done(t)
             /\ s \in {"load", "fetch", "rank"} => serp_calls = << >>
             /\ s \in {"load", "fetch", "rank", "serp"} => gen_calls = << >>
             /\ s = "load" => kw_calls = << >>
        /\ ~ENABLED (LoadClient \/ KeywordFetch \/ Rank \/ ShowKeywords
                       \/ SnippetFetch \/ ShowSnippets \/ Generate \/ ShowAds)
        /\ Shown("header") # {}
        /\ Done("show_kw") <=>
             \E i \in Shown("keywords") : screen[i].value = top_keywords_df
        /\ Done("show_serp") <=>
             \E i \in Shown("snippets") : screen[i].value = serp_df
        /\ Shown("ads") = {}

C6_Witness ==
    /\ FailedAt("gen")
    /\ Shown("keywords") # {}
    /\ Shown("snippets") # {}
    /\ ProviderErrors(screen) # {}

(* C7: scrape_google_search_results yields exactly min(limit, number of    *)
(* organic results) entries, the first ones of the response in response    *)
(* order; none when the response has no organic-results field.             *)
C7_FirstLimitEntries ==
    (Done("serp") /\ ~provider["serp"].raises) =>
        LET r == provider["serp"].results
            n == provider["serp"].num
            organic == IF "organic_results" \in DOMAIN r
                       THEN r["organic_results"] ELSE << >>
        IN  /\ Len(serp_df.rows) = Min(n, Len(organic))
            /\ \A i \in DOMAIN serp_df.rows :
                 /\ "title" \in DOMAIN organic[i]
                      => serp_df.rows[i].Title = organic[i]["title"]
                 /\ "snippet" \in DOMAIN organic[i]
                      => serp_df.rows[i].Description = organic[i]["snippet"]

C7_Witness ==
    /\ pc = "scraped"
    /\ provider["serp"].num = 1
    /\ "organic_results" \in DOMAIN provider["serp"].results
    /\ Len(provider["serp"].results["organic_results"]) = 2
    /\ provider["serp"].results["organic_results"][1] = [ title |-> "t1" ]
    /\ serp_df.rows = << [ Title |-> "t1", Description |-> "N/A" ] >>

(* C8: every produced entry has a title and a description; a title or      *)
(* snippet missing from the provider result becomes "N/A", a present one   *)
(* is passed through unchanged.                                            *)
C8_PlaceholderForMissing ==
    (Done("serp") /\ ~provider["serp"].raises) =>
        \A i \in DOMAIN serp_df.rows :
            LET o == provider["serp"].results["organic_results"][i]
                e == serp_df.rows[i]
            IN  /\ DOMAIN e = {"Title", "Description"}
                /\ e.Title = IF "title" \in DOMAIN o THEN o["title"] ELSE "N/A"
                /\ e.Description = IF "snippet" \in DOMAIN o THEN o["snippet"] ELSE "N/A"
                /\ "title" \notin DOMAIN o => e.Title # "null"
                /\ "snippet" \notin DOMAIN o => e.Description # "null"

C8_Witness ==
    /\ pc = "scraped"
    /\ Len(serp_df.rows) = 2
    /\ DOMAIN provider["serp"].results["organic_results"][1] = {}
    /\ DOMAIN provider["serp"].results["organic_results"][2] = {"title", "snippet"}
    /\ serp_df.rows[1] = [ Title |-> "N/A", Description |-> "N/A" ]
    /\ serp_df.rows[2] = [ Title |-> "t1", Description |-> "null" ]

(* C9: the keyword list given to the completion call is the keyword column *)
(* of the ranked table displayed in the same run, in rank order and of at  *)
(* most 10 entries, and the snippets given to it are those the run's       *)
(* snippet fetch returned.                                                 *)
C9_GenerationInputs ==
    gen_calls # << >> =>
        LET a == gen_calls[1]
        IN  /\ Len(a.top_keywords) <= TopN
            /\ Cardinality(Shown("keywords")) = 1
            /\ \A i \in Shown("keywords") :
                 /\ Len(a.top_keywords) = Len(screen[i].value.rows)
                 /\ \A j \in DOMAIN a.top_keywords :
                      a.top_keywords[j] = screen[i].value.rows[j].Keyword
            /\ Cardinality(Shown("snippets")) = 1
            /\ \A i \in Shown("snippets") :
                 /\ screen[i].value = serp_df
                 /\ DOMAIN a.serp_df_list = screen[i].value.columns
                 /\ \A c \in DOMAIN a.serp_df_list :
                      /\ DOMAIN a.serp_df_list[c] = DOMAIN screen[i].value.rows
                      /\ \A j \in DOMAIN a.serp_df_list[c] :
                           a.serp_df_list[c][j] = screen[i].value.rows[j][c]
            /\ a.prompt.serp = a.serp_df_list
            /\ Len(serp_df.rows) =
                 Min(NumResults, Len(OrganicResults(provider["serp"].results)))

C9_Witness ==
    /\ pc = "done"
    /\ Len(df.rows) > TopN
    /\ Len(gen_calls[1].top_keywords) = TopN
    /\ gen_calls[1].top_keywords # KeywordList(HeadN(df, TopN))
    /\ Len(serp_df.rows) = NumResults

(* C10: in a run each of the three external services is called at most     *)
(* once, a failed call is not retried, and a run that completes has called *)
(* each exactly once.                                                      *)
C10_CalledAtMostOnce ==
    /\ Len(kw_calls) <= 1
    /\ Len(serp_calls) <= 1
    /\ Len(gen_calls) <= 1
    /\ pc = "done" => (Len(kw_calls) = 1 /\ Len(serp_calls) = 1 /\ Len(gen_calls) = 1)
    /\ pc = "failed" =>
         ~ENABLED (KeywordFetch \/ SnippetFetch \/ Generate)

C10_Witness ==
    /\ FailedAt("gen")
    /\ Len(kw_calls) = 1 /\ Len(serp_calls) = 1 /\ Len(gen_calls) = 1
    /\ provider["gen"].raises

====
